---- MODULE Spec2Model ----
(***************************************************************************)
(* jp-live-ocr: the HomeView component (camera capture, OCR, word click,   *)
(* dictionary panel) and the JpdbService vocabulary client it calls.       *)
(*                                                                         *)
(* Strings are sequences of one-character strings, so that trim and split  *)
(* are computed and not assumed.  Two revisions of JpdbService are in the  *)
(* source: services/jpdbService.ts ("ts", a dedicated /lookup endpoint)    *)
(* and the one that follows the view's style block in views/HomeView.vue   *)
(* ("reparse": ping, and lookupWord implemented by parsing the word).      *)
(* A build holds one of them; impl says which.                             *)
(***************************************************************************)
EXTENDS Integers, Sequences, FiniteSets, TLC

VARIABLES
    impl,             \* which revision of JpdbService the build holds
    apiKey,           \* JpdbService.apiKey
    localStorage,     \* the items of window.localStorage, as <<name, value>> pairs
    call,             \* a direct service call awaiting its fetch (service harness)
    ret,              \* what the last direct service call returned
    capturedImage, ocrResult, ocrWords, isProcessing, errorMessage,
    selectedWord, showDictionary, jpdbTokens, isParsing, isLookingUp,
    selectedWordInfo, jpdbApiKey, showApiKeyInput,
    ocrRun,           \* the performOCR invocation that is suspended at an await
    parses,           \* parseTextWithJpdb invocations awaiting the remote
    lookups,          \* handleWordClick invocations awaiting lookupWord
    latestLookup,     \* where in lookups the latest word click waits, 0 when it does not
    reads,            \* FileReader reads that have not fired onload yet
    mounted,          \* the component is mounted (FALSE once onUnmounted has run)
    stream,           \* the stream ref of the view
    userMedia,        \* what has become of startCamera's getUserMedia call
    liveTracks,       \* the camera tracks handed out and not stopped
    imageRef          \* the img element bound to the imageRef template ref

svcVars == <<impl, apiKey, localStorage>>
testVars == <<call, ret>>
viewVars == <<capturedImage, ocrResult, ocrWords, isProcessing, errorMessage,
              selectedWord, showDictionary, jpdbTokens, isParsing, isLookingUp,
              selectedWordInfo, jpdbApiKey, showApiKeyInput>>
asyncVars == <<ocrRun, parses, lookups, latestLookup, reads>>
cameraVars == <<mounted, stream, userMedia, liveTracks>>
renderVars == <<imageRef>>
vars == <<svcVars, testVars, viewVars, asyncVars, cameraVars, renderVars>>

----------------------------------------------------------------------------
(* Bounds *)

\* longest text handed to the service by a direct call
MaxLen == 4
\* asynchronous operations (recognitions, parses, lookups, file reads) that may
\* be in flight at once
MaxInFlight == 2

----------------------------------------------------------------------------
(* Strings *)

Whitespace == {" "}
Letters == {"a", "b"}
Chars == Letters \cup Whitespace

\* JS null where a string is expected: a sequence no string equals
Null == <<"null">>
EmptyStr == <<>>

\* JS truthiness of a string | null
Truthy(s) == s # Null /\ s # EmptyStr

IsWs(c) == c \in Whitespace

RECURSIVE TrimStart(_)
TrimStart(s) ==
    IF s = <<>> THEN <<>>
    ELSE IF IsWs(Head(s)) THEN TrimStart(Tail(s)) ELSE s

RECURSIVE TrimEnd(_)
TrimEnd(s) ==
    IF s = <<>> THEN <<>>
    ELSE IF IsWs(s[Len(s)]) THEN TrimEnd(SubSeq(s, 1, Len(s) - 1)) ELSE s

\* String.prototype.trim
Trim(s) == TrimEnd(TrimStart(s))

\* length of the longest prefix of s whose characters all satisfy ws = IsWs(c)
RECURSIVE RunLen(_, _)
RunLen(s, ws) ==
    IF s = <<>> \/ IsWs(Head(s)) # ws THEN 0 ELSE 1 + RunLen(Tail(s), ws)

\* text.split(/(\s+)/): the pieces between whitespace runs, and, the group being
\* captured, the runs themselves; a piece is empty where the text starts or
\* ends with a run, and the empty text yields one empty piece.
RECURSIVE SplitFrom(_, _)
SplitFrom(s, piece) ==
    IF s = <<>> THEN <<piece>>
    ELSE IF IsWs(Head(s))
         THEN LET n == RunLen(s, TRUE)
              IN  <<piece, SubSeq(s, 1, n)>> \o SplitFrom(SubSeq(s, n + 1, Len(s)), <<>>)
         ELSE SplitFrom(Tail(s), Append(piece, Head(s)))

SplitCapture(text) == SplitFrom(text, <<>>)

\* .filter(word => word.trim().length > 0)
RECURSIVE FilterNonBlank(_)
FilterNonBlank(ws) ==
    IF ws = <<>> THEN <<>>
    ELSE IF Len(Trim(Head(ws))) > 0
         THEN <<Head(ws)>> \o FilterNonBlank(Tail(ws))
         ELSE FilterNonBlank(Tail(ws))

\* the filter left out: a plausible slip
FallbackWordsUnfiltered(text) == SplitCapture(text)

\* text.split(/(\s+)/).filter(word => word.trim().length > 0)
FallbackWords(text) == FilterNonBlank(SplitCapture(text))

Token(t, cs) == [text |-> t, card_state |-> cs]

\* .map(word => ({ text: word, card_state: 'new' }))
FallbackTokens(text) ==
    LET w == FallbackWords(text)
    IN  [i \in 1..Len(w) |-> Token(w[i], "new")]

----------------------------------------------------------------------------
(* The remote vocabulary service, as the client sees it *)

Impls == {"ts", "reparse"}

\* what a fetch can come to: the promise rejects; a non-2xx status; a 2xx body
\* that is not JSON; a 2xx body carrying jpdb's error_message; a 2xx empty body;
\* a 2xx JSON object without the data asked for; a 2xx body with the data.
Failures == {"NetworkReject", "Http401", "Http500", "BadJson"}
Outcomes == Failures \cup {"ErrorMessage", "EmptyBody", "OkEmpty", "Ok"}

\* the card state the remote holds for a spelling
CardStateOf(w) ==
    IF w = <<>> THEN "new"
    ELSE IF Head(w) = "a" THEN "known" ELSE "learning"

\* the card state the remote holds for the i-th of the words w: a spelling that
\* occurred before is read as another entry (a homograph), with its own state
OccurrenceState(w, i) ==
    IF \E j \in 1..(i - 1) : w[j] = w[i] THEN "suspended" ELSE CardStateOf(w[i])

NoIndex == 0 - 1

\* the pieces of SplitCapture with the (0-based, as utf16 offsets) position of each
RECURSIVE Spans(_, _)
Spans(pieces, pos) ==
    IF pieces = <<>> THEN <<>>
    ELSE <<[piece |-> Head(pieces), position |-> pos]>>
         \o Spans(Tail(pieces), pos + Len(Head(pieces)))

NonEmptySpans(sent) ==
    SelectSeq(Spans(SplitCapture(sent), 0), LAMBDA sp : Len(sp.piece) > 0)

\* how many of the first i spans are words (not whitespace runs)
RECURSIVE WordsBefore(_, _)
WordsBefore(spans, i) ==
    IF i = 0 THEN 0
    ELSE WordsBefore(spans, i - 1) + (IF Len(Trim(spans[i].piece)) > 0 THEN 1 ELSE 0)

\* the body the remote answers a parse of `sent` with when all goes well:
\* services/jpdbService.ts reads body.tokens as the token list itself;
RemoteTokens(sent) ==
    LET w == FallbackWords(sent)
    IN  [i \in 1..Len(w) |-> Token(w[i], OccurrenceState(w, i))]

\* the other revision reads one token array per text block, each token naming an
\* entry of the shared vocabulary array by index, or none (a raw text span).
RemoteParagraph(sent) ==
    LET sp == NonEmptySpans(sent)
    IN  [i \in 1..Len(sp) |->
            [vocabulary_index |-> IF Len(Trim(sp[i].piece)) > 0
                                  THEN WordsBefore(sp, i) - 1 ELSE NoIndex,
             position |-> sp[i].position,
             length |-> Len(sp[i].piece)]]

RemoteVocabulary(sent) ==
    LET w == FallbackWords(sent)
    IN  [i \in 1..Len(w) |-> [spelling |-> w[i], card_state |-> <<OccurrenceState(w, i)>>]]

\* the first entry the remote's /lookup holds for a word
RemoteEntry(w) == [card_state |-> CardStateOf(w)]

----------------------------------------------------------------------------
(* JpdbService *)

\* makeRequest without its first check: a plausible slip
makeRequestFetchesUnguarded(keyPresent) == TRUE

\* makeRequest: `if (!this.apiKey) throw ...` comes before the fetch
makeRequestFetches(keyPresent) == keyPresent

\* makeRequest of services/jpdbService.ts: throws, or returns response.json()
makeRequestThrowsTs(keyPresent, outcome) ==
    \/ ~makeRequestFetches(keyPresent)
    \/ outcome \in {"NetworkReject", "Http401", "Http500"}   \* fetch rejects, !response.ok
    \/ outcome \in {"BadJson", "EmptyBody"}                  \* response.json() rejects

\* makeRequest of the revision in views/HomeView.vue: an empty body is {}, and a
\* body with error_message throws
makeRequestThrowsReparse(keyPresent, outcome) ==
    \/ ~makeRequestFetches(keyPresent)
    \/ outcome \in {"NetworkReject", "Http401", "Http500"}
    \/ outcome = "BadJson"                                   \* JSON.parse throws
    \/ outcome = "ErrorMessage"

\* String.prototype.substring(start, end), 0-based, end clamped to the length
Substring(s, start, end) ==
    LET e == IF end > Len(s) THEN Len(s) ELSE end
    IN  IF start >= e THEN <<>> ELSE SubSeq(s, start + 1, e)

\* the transform of parseText (HomeView.vue revision): first paragraph's tokens
TransformTokens(text, paragraph, vocabulary) ==
    [i \in 1..Len(paragraph) |->
        IF paragraph[i].vocabulary_index # NoIndex
        THEN LET vocab == vocabulary[paragraph[i].vocabulary_index + 1]
             IN  Token(vocab.spelling, vocab.card_state[1])
        ELSE Token(Substring(text, paragraph[i].position,
                             paragraph[i].position + paragraph[i].length), "new")]

\* the catch block returning no tokens instead of the fallback: a plausible slip
parseTextNoFallback(implv, text, keyPresent, outcome) ==
    IF implv = "ts"
    THEN IF makeRequestThrowsTs(keyPresent, outcome) THEN <<>>
         ELSE IF outcome = "Ok" THEN RemoteTokens(Trim(text)) ELSE <<>>
    ELSE IF makeRequestThrowsReparse(keyPresent, outcome) THEN <<>>
         ELSE IF outcome = "Ok"
              THEN TransformTokens(text, RemoteParagraph(Trim(text)),
                                   RemoteVocabulary(Trim(text)))
              ELSE <<>>

\* parseText(text): the tokens of the response it resolves to; it never rejects
parseText(implv, text, keyPresent, outcome) ==
    IF implv = "ts"
    THEN IF makeRequestThrowsTs(keyPresent, outcome)
         THEN FallbackTokens(text)                           \* catch
         ELSE IF outcome = "Ok"
              THEN RemoteTokens(Trim(text))                  \* response.tokens
              ELSE <<>>                                      \* response.tokens || []
    ELSE IF makeRequestThrowsReparse(keyPresent, outcome)
         THEN FallbackTokens(text)                           \* catch
         ELSE IF outcome = "Ok"
              THEN TransformTokens(text, RemoteParagraph(Trim(text)),
                                   RemoteVocabulary(Trim(text)))
              ELSE <<>>                                      \* no tokens in the body

\* JS null where a lookup result is expected
NullInfo == [null |-> TRUE]

LookupResult(w, cs) == [word |-> w, card_state |-> cs]

\* find taking the last match instead of the first: a plausible slip
FindTokenLast(tokens, w) ==
    LET hits == {i \in 1..Len(tokens) : Trim(tokens[i].text) = Trim(w)}
    IN  IF hits = {} THEN 0 ELSE CHOOSE i \in hits : \A j \in hits : i >= j

\* tokens.find(t => t.text.trim() === word.trim()): its index, 0 when none
FindToken(tokens, w) ==
    LET hits == {i \in 1..Len(tokens) : Trim(tokens[i].text) = Trim(w)}
    IN  IF hits = {} THEN 0 ELSE CHOOSE i \in hits : \A j \in hits : i <= j

\* lookupWord(word): the value it resolves to; it never rejects
lookupWord(implv, word, keyPresent, outcome) ==
    IF implv = "ts"
    THEN IF makeRequestThrowsTs(keyPresent, outcome)
         THEN NullInfo                                       \* catch
         ELSE IF outcome = "Ok"                              \* entries.length > 0
              THEN LookupResult(word, RemoteEntry(Trim(word)).card_state)
              ELSE NullInfo
    ELSE LET tokens == parseText(implv, word, keyPresent, outcome)
             i == FindToken(tokens, word)
         IN  IF Len(tokens) > 0 /\ i # 0
             THEN LookupResult(word, tokens[i].card_state)
             ELSE NullInfo

\* ping with `return true` in its catch too: a plausible slip
pingAlwaysTrue(keyPresent, outcome) == TRUE

\* ping() of the revision in views/HomeView.vue, the only one that has it: the
\* value it resolves to; it never rejects
ping(keyPresent, outcome) ==
    IF makeRequestThrowsReparse(keyPresent, outcome)
    THEN FALSE                                               \* catch
    ELSE TRUE

\* JS undefined where a card state is expected
Undefined == "undefined"

\* the switch without its default label: a plausible slip
getWordColorClassNoDefault(cardState) ==
    CASE cardState = "known" -> "jpdb-known"
      [] cardState = "learning" -> "jpdb-learning"
      [] cardState = "suspended" -> "jpdb-suspended"
      [] cardState = "locked" -> "jpdb-locked"
      [] cardState = "new" -> "jpdb-new"
      [] OTHER -> Undefined

\* getWordColorClass(cardState), the same in both revisions
getWordColorClass(cardState) ==
    CASE cardState = "known" -> "jpdb-known"
      [] cardState = "learning" -> "jpdb-learning"
      [] cardState = "suspended" -> "jpdb-suspended"
      [] cardState = "locked" -> "jpdb-locked"
      [] OTHER -> "jpdb-new"                                 \* case 'new': default:

----------------------------------------------------------------------------
(* The environment of the view: images and what the OCR engine reads in them *)

NoImage == ""
Images == {"img1", "img2"}
\* canvas.toDataURL of a canvas without pixels
BlankImage == "data:,"

\* data.text of Tesseract.recognize for an image
OcrText(img) ==
    IF img = "img1" THEN <<"a", " ", "b", " ", "a">>
    ELSE IF img = "img2" THEN <<"b", " ">>
    ELSE <<>>

Bbox(a, b, c, d) == [x0 |-> a, y0 |-> b, x1 |-> c, y1 |-> d]
Word(t, box, conf) == [text |-> t, bbox |-> box, confidence |-> conf]

\* data.words of Tesseract.recognize for an image, when the engine reports words
OcrWordList(img) ==
    IF img = "img1"
    THEN <<Word(<<"a">>, Bbox(0, 0, 100, 50), 95), Word(<<"b">>, Bbox(110, 0, 180, 50), 90),
           Word(<<"a">>, Bbox(0, 60, 100, 100), 80)>>
    ELSE IF img = "img2"
    THEN <<Word(<<"b", " ">>, Bbox(0, 0, 100, 50), 95), Word(<<" ">>, Bbox(110, 0, 180, 50), 10)>>
    ELSE <<>>

\* what can be typed into the API key field, and keys a caller may set
KeyInputs == {<<" ">>, <<" ", "k">>}
StoredKeys == {<<"k">>}
\* keys a direct caller sets: the tests set '' and a key
CallerKeys == {<<>>, <<"k">>, <<"i">>}
\* the files the user picks for upload
UploadFiles == {"img2"}
\* the fetch outcomes the view is run against: one per distinct thing the
\* service can hand back (the fallback or null, nothing, the data)
ViewOutcomes == {"NetworkReject", "OkEmpty", "Ok"}

\* the card states handed to getWordColorClass: the five of the type, undefined,
\* and strings that are none of them
CardStates == {"known", "learning", "new", "suspended", "locked", Undefined,
               "", "Known", "redundant", "jpdb-known"}

Texts == UNION {[1..n -> Chars] : n \in 0..MaxLen}

NoCall == [op |-> "none"]
NoRet == [op |-> "none"]
NoRun == [phase |-> "idle"]

\* stream.value = null
NoStream == "null"
\* the stream getUserMedia resolves to, and its tracks
MediaStream == "mediaStream"
getTracks(mediaStream) == IF mediaStream = MediaStream THEN {"video"} ELSE {}

NoError == ""
CameraError == "Could not access camera. Please check permissions."
OcrError == "OCR processing failed. Please try again."

\* the asynchronous operations in flight; a parse that performOCR awaits is one
\* operation with it
InFlight ==
    Len(reads) + Len(lookups) + Len(parses)
        + (IF ocrRun.phase = "recognize" THEN 1 ELSE 0)

Remove(seq, i) == SubSeq(seq, 1, i - 1) \o SubSeq(seq, i + 1, Len(seq))

----------------------------------------------------------------------------
(* Construction *)

\* the one name the service stores under
StorageKey == "jpdb_api_key"

\* localStorage.getItem(name): the value, or null
getItem(store, name) ==
    IF \E item \in store : item[1] = name
    THEN (CHOOSE item \in store : item[1] = name)[2]
    ELSE Null

\* localStorage.setItem(name, value)
setItem(store, name, value) ==
    {item \in store : item[1] # name} \cup {<<name, value>>}

\* getEnvironmentApiKey of the HomeView.vue revision: process.env.JPDB_API_KEY,
\* where a process global exists
\* imageRef.value while no img element is rendered
NoElement == [null |-> TRUE]

EnvironmentKeys(implv) ==
    IF implv = "reparse" THEN {Null} \cup StoredKeys ELSE {Null}

Init ==
    /\ impl \in Impls
    /\ localStorage \in {{}} \cup {{<<StorageKey, key>>} : key \in StoredKeys}
    \* constructor: localStorage.getItem('jpdb_api_key') || <environment key> || null
    /\ \E envKey \in EnvironmentKeys(impl) :
          apiKey = IF Truthy(getItem(localStorage, StorageKey))
                   THEN getItem(localStorage, StorageKey)
                   ELSE IF Truthy(envKey) THEN envKey ELSE Null
    /\ call = NoCall
    /\ ret = NoRet
    /\ capturedImage = NoImage
    /\ ocrResult = <<>>
    /\ ocrWords = <<>>
    /\ isProcessing = FALSE
    /\ errorMessage = NoError
    /\ selectedWord = <<>>
    /\ showDictionary = FALSE
    /\ jpdbTokens = <<>>
    /\ isParsing = FALSE
    /\ isLookingUp = FALSE
    /\ selectedWordInfo = NullInfo
    \* ref(jpdbService.getApiKey() || ''), ref(!jpdbService.getApiKey())
    /\ jpdbApiKey = IF Truthy(apiKey) THEN apiKey ELSE <<>>
    /\ showApiKeyInput = ~Truthy(apiKey)
    /\ ocrRun = NoRun
    /\ parses = <<>>
    /\ lookups = <<>>
    /\ latestLookup = 0
    /\ reads = <<>>
    \* onMounted: startCamera up to `await navigator.mediaDevices.getUserMedia`
    /\ mounted = TRUE
    /\ stream = NoStream
    /\ userMedia = "pending"
    /\ liveTracks = {}
    \* nothing is captured, so the v-if holding the img renders nothing
    /\ imageRef = NoElement

----------------------------------------------------------------------------
(* The service called directly, one call at a time, as its test suite does *)

\* setApiKey without its second line: a plausible slip
setApiKeyUnsaved(key) ==
    /\ apiKey' = key
    /\ UNCHANGED localStorage

\* setApiKey(key)
setApiKey(key) ==
    /\ apiKey' = key
    /\ localStorage' = setItem(localStorage, StorageKey, key)

\* getApiKey()
getApiKey == apiKey

Returned(op, arg, keyPresent, fetched, outcome, value) ==
    [op |-> op, arg |-> arg, keyPresent |-> keyPresent, fetched |-> fetched,
     outcome |-> outcome, value |-> value]

SvcSetApiKey(key) ==
    /\ setApiKey(key)
    /\ UNCHANGED <<impl, testVars, viewVars, asyncVars, cameraVars, renderVars>>

\* await jpdbService.parseText(text): up to the fetch, or to the end without one
SvcParseText(text) ==
    /\ call = NoCall /\ ret = NoRet
    /\ IF makeRequestFetches(Truthy(apiKey))
       THEN /\ call' = [op |-> "parseText", arg |-> text, keyPresent |-> Truthy(apiKey)]
            /\ ret' = NoRet
       ELSE /\ ret' = Returned("parseText", text, FALSE, FALSE, "none",
                               parseText(impl, text, FALSE, "Ok"))
            /\ call' = NoCall
    /\ UNCHANGED <<svcVars, viewVars, asyncVars, cameraVars, renderVars>>

\* await jpdbService.lookupWord(word)
SvcLookupWord(word) ==
    /\ call = NoCall /\ ret = NoRet
    /\ IF makeRequestFetches(Truthy(apiKey))
       THEN /\ call' = [op |-> "lookupWord", arg |-> word, keyPresent |-> Truthy(apiKey)]
            /\ ret' = NoRet
       ELSE /\ ret' = Returned("lookupWord", word, FALSE, FALSE, "none",
                               lookupWord(impl, word, FALSE, "Ok"))
            /\ call' = NoCall
    /\ UNCHANGED <<svcVars, viewVars, asyncVars, cameraVars, renderVars>>

\* await jpdbService.ping()
SvcPing ==
    /\ impl = "reparse"
    /\ call = NoCall /\ ret = NoRet
    /\ IF makeRequestFetches(Truthy(apiKey))
       THEN /\ call' = [op |-> "ping", arg |-> <<>>, keyPresent |-> Truthy(apiKey)]
            /\ ret' = NoRet
       ELSE /\ ret' = Returned("ping", <<>>, FALSE, FALSE, "none", ping(FALSE, "Ok"))
            /\ call' = NoCall
    /\ UNCHANGED <<svcVars, viewVars, asyncVars, cameraVars, renderVars>>

\* jpdbService.getWordColorClass(cardState)
SvcGetWordColorClass(cardState) ==
    /\ call = NoCall /\ ret = NoRet
    /\ ret' = Returned("getWordColorClass", cardState, Truthy(apiKey), FALSE, "none",
                       getWordColorClass(cardState))
    /\ UNCHANGED <<call, svcVars, viewVars, asyncVars, cameraVars, renderVars>>

\* the fetch of the pending call settles and the call returns
SvcSettle(outcome) ==
    /\ call # NoCall
    /\ ret' = Returned(call.op, call.arg, call.keyPresent, TRUE, outcome,
                       IF call.op = "parseText"
                       THEN parseText(impl, call.arg, call.keyPresent, outcome)
                       ELSE IF call.op = "ping"
                       THEN ping(call.keyPresent, outcome)
                       ELSE lookupWord(impl, call.arg, call.keyPresent, outcome))
    /\ call' = NoCall
    /\ UNCHANGED <<svcVars, viewVars, asyncVars, cameraVars, renderVars>>

\* the caller is done with the returned value
SvcDone ==
    /\ ret # NoRet
    /\ ret' = NoRet
    /\ UNCHANGED <<call, svcVars, viewVars, asyncVars, cameraVars, renderVars>>

SvcNext ==
    \/ \E key \in CallerKeys : SvcSetApiKey(key)
    \/ \E text \in Texts : SvcParseText(text)
    \/ \E word \in Texts : SvcLookupWord(word)
    \/ \E cardState \in CardStates : SvcGetWordColorClass(cardState)
    \/ SvcPing
    \/ \E outcome \in Outcomes : SvcSettle(outcome)
    \/ SvcDone

SvcSpec == Init /\ [][SvcNext]_vars

----------------------------------------------------------------------------
(* HomeView: the handlers, as the template lets the user fire them *)

\* getUserMedia resolves: the rest of startCamera
getUserMediaResolves ==
    /\ userMedia = "pending"
    /\ userMedia' = "granted"
    /\ stream' = MediaStream
    /\ liveTracks' = liveTracks \cup getTracks(MediaStream)
    /\ UNCHANGED <<svcVars, testVars, renderVars, viewVars, asyncVars, mounted>>

\* the catch of startCamera leaving the message alone: a plausible slip
getUserMediaRejectsSilently ==
    /\ userMedia = "pending"
    /\ userMedia' = "denied"
    /\ UNCHANGED <<svcVars, testVars, renderVars, viewVars, asyncVars, mounted, stream, liveTracks>>

\* getUserMedia rejects (access denied, no camera), or navigator.mediaDevices
\* is absent and the call throws: the catch of startCamera
getUserMediaRejects ==
    /\ userMedia = "pending"
    /\ userMedia' = "denied"
    /\ errorMessage' = CameraError
    /\ UNCHANGED <<svcVars, testVars, renderVars, asyncVars, mounted, stream, liveTracks,
                   capturedImage, ocrResult, ocrWords, isProcessing, selectedWord,
                   showDictionary, jpdbTokens, isParsing, isLookingUp, selectedWordInfo,
                   jpdbApiKey, showApiKeyInput>>

\* onUnmounted: stopCamera
onUnmounted ==
    /\ mounted
    /\ mounted' = FALSE
    /\ IF stream # NoStream
       THEN /\ liveTracks' = liveTracks \ getTracks(stream)   \* track.stop()
            /\ stream' = NoStream
       ELSE UNCHANGED <<stream, liveTracks>>
    /\ imageRef' = NoElement                         \* template refs are unset
    /\ UNCHANGED <<svcVars, testVars, viewVars, asyncVars, userMedia>>

\* the video element shows a frame: it is bound to a stream whose track runs
FrameAvailable == mounted /\ liveTracks # {}

\* what canvas.toDataURL gives after drawImage(video): the frame, or, the video
\* having no frame, videoWidth = videoHeight = 0 and the canvas has no pixels
Frames == IF FrameAvailable THEN Images ELSE {BlankImage}

\* the `Capture Image` button: captureImage; videoRef and canvasRef are set
\* while the component is mounted, and the canvas yields its 2d context
captureImage ==
    /\ mounted
    /\ capturedImage = NoImage                       \* v-if="!capturedImage"
    /\ \E img \in Frames : capturedImage' = img     \* canvas.toDataURL
    /\ UNCHANGED <<svcVars, testVars, cameraVars, renderVars, asyncVars, ocrResult, ocrWords,
                   isProcessing, errorMessage, selectedWord, showDictionary, jpdbTokens,
                   isParsing, isLookingUp, selectedWordInfo, jpdbApiKey, showApiKeyInput>>

\* the file input's change event: handleImageUpload starts a FileReader read
handleImageUpload(file) ==
    /\ mounted
    /\ capturedImage = NoImage                       \* v-if="!capturedImage"
    /\ InFlight < MaxInFlight
    /\ reads' = Append(reads, file)
    /\ UNCHANGED <<svcVars, testVars, cameraVars, renderVars, viewVars, ocrRun, parses, lookups, latestLookup>>

\* reader.onload of a pending read
readerOnload(i) ==
    /\ i \in 1..Len(reads)
    /\ capturedImage' = reads[i]
    /\ reads' = Remove(reads, i)
    /\ UNCHANGED <<svcVars, testVars, cameraVars, renderVars, ocrRun, parses, lookups, latestLookup, ocrResult, ocrWords,
                   isProcessing, errorMessage, selectedWord, showDictionary, jpdbTokens,
                   isParsing, isLookingUp, selectedWordInfo, jpdbApiKey, showApiKeyInput>>

\* the first line of performOCR left out: a plausible slip
performOCRReturnsNever(image) == FALSE

\* `if (!capturedImage.value) return`
performOCRReturns(image) == image = NoImage

\* the `Perform OCR` button never disabled: a plausible slip
ocrButtonNeverDisabled == FALSE

\* :disabled="isProcessing" on the `Perform OCR` button
ocrButtonDisabled == isProcessing

\* performOCR up to `await Tesseract.recognize`: fired by the `Perform OCR`
\* button, which the template shows once an image is captured, or called while
\* there is no image
performOCR ==
    /\ mounted
    /\ ~ocrButtonDisabled
    /\ InFlight < MaxInFlight
    /\ IF performOCRReturns(capturedImage)
       THEN UNCHANGED <<isProcessing, errorMessage, ocrRun>>
       ELSE /\ isProcessing' = TRUE
            /\ errorMessage' = NoError
            /\ ocrRun' = [phase |-> "recognize", image |-> capturedImage]
    /\ UNCHANGED <<svcVars, testVars, cameraVars, renderVars, parses, lookups, latestLookup, reads, capturedImage, ocrResult,
                   ocrWords, selectedWord, showDictionary, jpdbTokens, isParsing,
                   isLookingUp, selectedWordInfo, jpdbApiKey, showApiKeyInput>>

\* recognize resolves: performOCR from line 110 to its next await, or to its end
recognizeResolves(withWords) ==
    /\ ocrRun.phase = "recognize"
    /\ LET text == Trim(OcrText(ocrRun.image))
       IN  /\ ocrResult' = text
           /\ ocrWords' = IF withWords THEN OcrWordList(ocrRun.image) ELSE ocrWords
           /\ IF Truthy(text) /\ Truthy(apiKey)
              THEN \* parseTextWithJpdb up to `await jpdbService.parseText`
                   /\ isParsing' = TRUE
                   /\ parses' = Append(parses, [text |-> text, awaitedBy |-> "ocr"])
                   /\ ocrRun' = [phase |-> "parse"]
                   /\ UNCHANGED isProcessing
              ELSE /\ isProcessing' = FALSE          \* finally
                   /\ ocrRun' = NoRun
                   /\ UNCHANGED <<isParsing, parses>>
    /\ UNCHANGED <<svcVars, testVars, cameraVars, renderVars, lookups, latestLookup, reads, capturedImage, errorMessage,
                   selectedWord, showDictionary, jpdbTokens, isLookingUp,
                   selectedWordInfo, jpdbApiKey, showApiKeyInput>>

\* performOCR without its finally: a plausible slip
recognizeRejectsNoFinally ==
    /\ ocrRun.phase = "recognize"
    /\ errorMessage' = OcrError
    /\ ocrRun' = NoRun
    /\ UNCHANGED <<svcVars, testVars, cameraVars, renderVars, parses, lookups, latestLookup, reads, capturedImage,
                   ocrResult, ocrWords, isProcessing, selectedWord, showDictionary,
                   jpdbTokens, isParsing, isLookingUp, selectedWordInfo, jpdbApiKey,
                   showApiKeyInput>>

\* recognize rejects: the catch and the finally of performOCR
recognizeRejects ==
    /\ ocrRun.phase = "recognize"
    /\ errorMessage' = OcrError
    /\ isProcessing' = FALSE
    /\ ocrRun' = NoRun
    /\ UNCHANGED <<svcVars, testVars, cameraVars, renderVars, parses, lookups, latestLookup, reads, capturedImage, ocrResult,
                   ocrWords, selectedWord, showDictionary, jpdbTokens, isParsing,
                   isLookingUp, selectedWordInfo, jpdbApiKey, showApiKeyInput>>

\* parseText resolves: the rest of parseTextWithJpdb, and of the performOCR
\* that awaits it
parseSettles(i, outcome) ==
    /\ i \in 1..Len(parses)
    /\ jpdbTokens' = parseText(impl, parses[i].text, TRUE, outcome)
    /\ isParsing' = FALSE                            \* finally
    /\ parses' = Remove(parses, i)
    /\ IF parses[i].awaitedBy = "ocr"
       THEN isProcessing' = FALSE /\ ocrRun' = NoRun \* finally of performOCR
       ELSE UNCHANGED <<isProcessing, ocrRun>>
    /\ UNCHANGED <<svcVars, testVars, cameraVars, renderVars, lookups, latestLookup, reads, capturedImage, ocrResult, ocrWords,
                   errorMessage, selectedWord, showDictionary, isLookingUp,
                   selectedWordInfo, jpdbApiKey, showApiKeyInput>>

\* v-model="jpdbApiKey" on the key field
typeApiKey(key) ==
    /\ mounted
    /\ showApiKeyInput
    /\ jpdbApiKey' = key
    /\ UNCHANGED <<svcVars, testVars, cameraVars, renderVars, asyncVars, capturedImage, ocrResult, ocrWords,
                   isProcessing, errorMessage, selectedWord, showDictionary, jpdbTokens,
                   isParsing, isLookingUp, selectedWordInfo, showApiKeyInput>>

\* the text check of setJpdbApiKey left out: a plausible slip
reparseWantedAlways(text) == TRUE

\* `if (ocrResult.value)` of setJpdbApiKey
reparseWanted(text) == Truthy(text)

\* the test made on the field's value as typed: a plausible slip
keyGivenUntrimmed(key) == Truthy(key)

\* `if (jpdbApiKey.value.trim())`
keyGiven(key) == Truthy(Trim(key))

\* the `Set API Key` button and the field's enter key: setJpdbApiKey
setJpdbApiKey ==
    /\ mounted
    /\ showApiKeyInput
    /\ IF keyGiven(jpdbApiKey)
       THEN /\ setApiKey(Trim(jpdbApiKey))
            /\ showApiKeyInput' = FALSE
            /\ IF reparseWanted(ocrResult)
               THEN \* parseTextWithJpdb, not awaited
                    /\ InFlight < MaxInFlight
                    /\ isParsing' = TRUE
                    /\ parses' = Append(parses, [text |-> ocrResult, awaitedBy |-> "key"])
               ELSE UNCHANGED <<isParsing, parses>>
       ELSE UNCHANGED <<apiKey, localStorage, showApiKeyInput, isParsing, parses>>
    /\ UNCHANGED <<impl, testVars, cameraVars, renderVars, ocrRun, lookups, latestLookup, reads, capturedImage, ocrResult,
                   ocrWords, isProcessing, errorMessage, selectedWord, showDictionary,
                   jpdbTokens, isLookingUp, selectedWordInfo, jpdbApiKey>>

\* the `Settings` / `Setup API Key` buttons: showApiKeySettings
showApiKeySettings ==
    /\ mounted
    /\ ~showApiKeyInput
    /\ showApiKeyInput' = TRUE
    /\ jpdbApiKey' = IF Truthy(apiKey) THEN apiKey ELSE <<>>
    /\ UNCHANGED <<svcVars, testVars, cameraVars, renderVars, asyncVars, capturedImage, ocrResult, ocrWords,
                   isProcessing, errorMessage, selectedWord, showDictionary, jpdbTokens,
                   isParsing, isLookingUp, selectedWordInfo>>

\* the `Skip` button
skipApiKey ==
    /\ mounted
    /\ showApiKeyInput
    /\ showApiKeyInput' = FALSE
    /\ UNCHANGED <<svcVars, testVars, cameraVars, renderVars, asyncVars, capturedImage, ocrResult, ocrWords,
                   isProcessing, errorMessage, selectedWord, showDictionary, jpdbTokens,
                   isParsing, isLookingUp, selectedWordInfo, jpdbApiKey>>

\* the words drawn as clickable overlays
overlayWords ==
    IF capturedImage # NoImage                       \* v-if="capturedImage"
    THEN {ocrWords[i].text : i \in 1..Len(ocrWords)}
    ELSE {}

\* the key check of handleWordClick left out: a plausible slip
lookupWantedAlways(key) == TRUE

\* `if (jpdbService.getApiKey())` of handleWordClick
lookupWanted(key) == Truthy(key)

\* the trim of handleWordClick left out: a plausible slip
clickedWordUntrimmed(word) == word

\* `selectedWord.value = word.trim()`
clickedWord(word) == Trim(word)

\* a click on an overlay: handleWordClick up to `await jpdbService.lookupWord`
handleWordClick(word) ==
    /\ mounted
    /\ word \in overlayWords
    /\ selectedWord' = clickedWord(word)
    /\ IF Truthy(clickedWord(word))
       THEN /\ showDictionary' = TRUE
            /\ selectedWordInfo' = NullInfo
            /\ IF lookupWanted(apiKey)
               THEN /\ InFlight < MaxInFlight
                    /\ isLookingUp' = TRUE
                    /\ lookups' = Append(lookups, clickedWord(word))
                    /\ latestLookup' = Len(lookups) + 1
               ELSE /\ UNCHANGED <<isLookingUp, lookups>>
                    /\ latestLookup' = 0
       ELSE /\ UNCHANGED <<showDictionary, selectedWordInfo, isLookingUp, lookups>>
            /\ latestLookup' = 0
    /\ UNCHANGED <<svcVars, testVars, cameraVars, renderVars, ocrRun, parses, reads, capturedImage, ocrResult,
                   ocrWords, isProcessing, errorMessage, jpdbTokens, isParsing,
                   jpdbApiKey, showApiKeyInput>>

\* lookupWord resolves: the rest of a handleWordClick
lookupSettles(i, outcome) ==
    /\ i \in 1..Len(lookups)
    /\ selectedWordInfo' = lookupWord(impl, lookups[i], TRUE, outcome)
    /\ isLookingUp' = FALSE                          \* finally
    /\ lookups' = Remove(lookups, i)
    /\ latestLookup' = IF i = latestLookup THEN 0
                       ELSE IF i < latestLookup THEN latestLookup - 1
                       ELSE latestLookup
    /\ UNCHANGED <<svcVars, testVars, cameraVars, renderVars, ocrRun, parses, reads, capturedImage, ocrResult,
                   ocrWords, isProcessing, errorMessage, selectedWord, showDictionary,
                   jpdbTokens, isParsing, jpdbApiKey, showApiKeyInput>>

\* closeDictionary forgetting the lookup result: a plausible slip
closeDictionaryKeepsInfo ==
    /\ mounted
    /\ showDictionary' = FALSE
    /\ selectedWord' = <<>>
    /\ UNCHANGED <<svcVars, testVars, cameraVars, renderVars, asyncVars, capturedImage, ocrResult, ocrWords,
                   isProcessing, errorMessage, jpdbTokens, isParsing, isLookingUp,
                   selectedWordInfo, jpdbApiKey, showApiKeyInput>>

\* the `Close` button, or a call of closeDictionary while mounted
closeDictionary ==
    /\ mounted
    /\ showDictionary' = FALSE
    /\ selectedWord' = <<>>
    /\ selectedWordInfo' = NullInfo
    /\ UNCHANGED <<svcVars, testVars, cameraVars, renderVars, asyncVars, capturedImage, ocrResult, ocrWords,
                   isProcessing, errorMessage, jpdbTokens, isParsing, isLookingUp,
                   jpdbApiKey, showApiKeyInput>>

\* the `Take New Photo` button
takeNewPhoto ==
    /\ mounted
    /\ capturedImage # NoImage                       \* v-else of !capturedImage
    /\ capturedImage' = NoImage
    /\ ocrResult' = <<>>
    /\ ocrWords' = <<>>
    /\ imageRef' = NoElement                         \* the v-if removes the img
    /\ UNCHANGED <<svcVars, testVars, cameraVars, asyncVars, isProcessing, errorMessage,
                   selectedWord, showDictionary, jpdbTokens, isParsing, isLookingUp,
                   selectedWordInfo, jpdbApiKey, showApiKeyInput>>

\* undefined where a token is expected
NoToken == [undefined |-> TRUE]

\* getJpdbTokenForWord(wordText): jpdbTokens.find by trimmed text
getJpdbTokenForWord(wordText) ==
    IF FindToken(jpdbTokens, wordText) = 0 THEN NoToken
    ELSE jpdbTokens[FindToken(jpdbTokens, wordText)]

\* getWordClass(word): the class names of its overlay
getWordClass(word) ==
    LET token == getJpdbTokenForWord(word.text)
        baseClass == "clickable-word"
    IN  IF token # NoToken /\ token.card_state \notin {"", Undefined}   \* token?.card_state
        THEN <<baseClass, getWordColorClass(token.card_state)>>
        ELSE <<baseClass>>

\* :class of the overlays the template draws, one per OCR word
overlayClasses ==
    IF capturedImage # NoImage                       \* v-if="capturedImage"
    THEN [i \in 1..Len(ocrWords) |-> getWordClass(ocrWords[i])]
    ELSE <<>>

\* the v-if chain without its first branch: a plausible slip
PanelStateNoLoading ==
    IF selectedWordInfo # NullInfo THEN "Resolved"
    ELSE IF ~Truthy(apiKey) THEN "Disabled"
    ELSE "Empty"

\* what the dictionary-content block shows, from the template's v-if chain
PanelState ==
    IF isLookingUp THEN "Loading"
    ELSE IF selectedWordInfo # NullInfo THEN "Resolved"
    ELSE IF ~Truthy(apiKey) THEN "Disabled"
    ELSE "Empty"

----------------------------------------------------------------------------
(* The img element of the captured image and the geometry of the overlays *)

\* naturalWidth x naturalHeight of a decoded image
NaturalSize(img) == [width |-> 200, height |-> 100]
\* clientWidth x clientHeight the layout gives the element once the image is
\* decoded: half size, full size, and a box that scales the two axes apart
ClientSizes == {[width |-> 100, height |-> 50], [width |-> 200, height |-> 100],
                [width |-> 100, height |-> 100]}
\* the layout of an img that has no image yet: no box, or the box of its alt text
UnloadedClientSizes == {[width |-> 0, height |-> 0], [width |-> 100, height |-> 50]}
\* naturalWidth and naturalHeight of an img whose image is not decoded
UnloadedSize == [width |-> 0, height |-> 0]

Element(natural, client) ==
    [naturalWidth |-> natural.width, naturalHeight |-> natural.height,
     clientWidth |-> client.width, clientHeight |-> client.height]

\* the render that follows the capture mounts <img ref="imageRef">; its image
\* is not decoded yet
imageRefBound ==
    /\ mounted
    /\ capturedImage # NoImage                       \* v-if="capturedImage"
    /\ imageRef = NoElement
    /\ \E client \in UnloadedClientSizes : imageRef' = Element(UnloadedSize, client)
    /\ UNCHANGED <<svcVars, testVars, viewVars, asyncVars, cameraVars>>

\* the load event of the img: the image is decoded and laid out, and
\* @load="$forceUpdate()" renders the overlays again
imageLoads ==
    /\ imageRef # NoElement
    /\ imageRef.naturalWidth = 0
    /\ capturedImage \in Images                      \* `data:,` decodes to nothing
    /\ \E client \in ClientSizes : imageRef' = Element(NaturalSize(capturedImage), client)
    /\ UNCHANGED <<svcVars, testVars, viewVars, asyncVars, cameraVars>>

\* a JS number: a ratio of integers, NaN or Infinity
Finite(n, d) == [kind |-> "finite", n |-> n, d |-> d]
NaN == [kind |-> "NaN"]
Infinity == [kind |-> "Infinity"]

\* a / b for integers a, b >= 0
Divide(a, b) ==
    IF b # 0 THEN Finite(a, b)
    ELSE IF a = 0 THEN NaN ELSE Infinity

\* k * x for an integer k >= 0 and a number x >= 0
Times(k, x) ==
    IF x.kind = "finite" THEN Finite(k * x.n, x.d)
    ELSE IF x.kind = "NaN" \/ k = 0 THEN NaN
    ELSE Infinity

\* `const scaleX = img.clientWidth / img.naturalWidth`
scaleX(img) == Divide(img.clientWidth, img.naturalWidth)

\* the vertical scale taken from the widths: a plausible slip
scaleYOfWidth(img) == Divide(img.clientWidth, img.naturalWidth)

\* `const scaleY = img.clientHeight / img.naturalHeight`
scaleY(img) == Divide(img.clientHeight, img.naturalHeight)

\* `${x}px`
Px(x) == [px |-> x]
\* the style {}
EmptyStyle == [empty |-> TRUE]

getWordOverlayStyle(bbox) ==
    IF imageRef = NoElement THEN EmptyStyle          \* if (!imageRef.value) return {}
    ELSE [position |-> "absolute",
          left |-> Px(Times(bbox.x0, scaleX(imageRef))),
          top |-> Px(Times(bbox.y0, scaleY(imageRef))),
          width |-> Px(Times(bbox.x1 - bbox.x0, scaleX(imageRef))),
          height |-> Px(Times(bbox.y1 - bbox.y0, scaleY(imageRef)))]

\* :style of the overlays the template draws, one per OCR word
overlayStyles ==
    IF capturedImage # NoImage                       \* v-if="capturedImage"
    THEN [i \in 1..Len(ocrWords) |-> getWordOverlayStyle(ocrWords[i].bbox)]
    ELSE <<>>

----------------------------------------------------------------------------
(* The component: every handler *)

Next ==
    \/ getUserMediaResolves
    \/ getUserMediaRejects
    \/ onUnmounted
    \/ captureImage
    \/ imageRefBound
    \/ imageLoads
    \/ \E file \in UploadFiles : handleImageUpload(file)
    \/ \E i \in 1..Len(reads) : readerOnload(i)
    \/ performOCR
    \/ \E withWords \in BOOLEAN : recognizeResolves(withWords)
    \/ recognizeRejects
    \/ \E i \in 1..Len(parses), outcome \in ViewOutcomes : parseSettles(i, outcome)
    \/ \E key \in KeyInputs : typeApiKey(key)
    \/ setJpdbApiKey
    \/ showApiKeySettings
    \/ skipApiKey
    \/ \E word \in overlayWords : handleWordClick(word)
    \/ \E i \in 1..Len(lookups), outcome \in ViewOutcomes : lookupSettles(i, outcome)
    \/ closeDictionary
    \/ takeNewPhoto

Spec == Init /\ [][Next]_vars

\* A session at the dictionary panel: photos come from the camera, the key is
\* typed and set, words are clicked, looked up and closed.
PanelNext ==
    \/ getUserMediaResolves
    \/ captureImage
    \/ performOCR
    \/ \E withWords \in BOOLEAN : recognizeResolves(withWords)
    \/ recognizeRejects
    \/ \E i \in 1..Len(parses), outcome \in ViewOutcomes : parseSettles(i, outcome)
    \/ \E key \in KeyInputs : typeApiKey(key)
    \/ setJpdbApiKey
    \/ \E word \in overlayWords : handleWordClick(word)
    \/ \E i \in 1..Len(lookups), outcome \in ViewOutcomes : lookupSettles(i, outcome)
    \/ closeDictionary
    \/ takeNewPhoto

PanelSpec == Init /\ [][PanelNext]_vars

\* A session of taking photos: capture, upload, retake, OCR, vocabulary parse
\* and every use of the key form, with no word clicked.
PhotoNext ==
    \/ getUserMediaResolves
    \/ captureImage
    \/ \E file \in UploadFiles : handleImageUpload(file)
    \/ \E i \in 1..Len(reads) : readerOnload(i)
    \/ performOCR
    \/ \E withWords \in BOOLEAN : recognizeResolves(withWords)
    \/ recognizeRejects
    \/ \E i \in 1..Len(parses), outcome \in ViewOutcomes : parseSettles(i, outcome)
    \/ \E key \in KeyInputs : typeApiKey(key)
    \/ setJpdbApiKey
    \/ showApiKeySettings
    \/ skipApiKey
    \/ takeNewPhoto

PhotoSpec == Init /\ [][PhotoNext]_vars

\* the promise of Tesseract.recognize settles
recognizeSettles ==
    \/ \E withWords \in BOOLEAN : recognizeResolves(withWords)
    \/ recognizeRejects

\* `await parseTextWithJpdb(...)` of performOCR returns: the step of
\* parseSettles that ends the run, whatever the remote answered
ocrParseSettles == ocrRun.phase = "parse" /\ ocrRun' = NoRun

\* A session of OCR runs: photos come from the camera and are retaken, the text
\* is read, and the key the session started with is set again from the form.
OcrRunNext ==
    \/ getUserMediaResolves
    \/ captureImage
    \/ performOCR
    \/ \E withWords \in BOOLEAN : recognizeResolves(withWords)
    \/ recognizeRejects
    \/ \E i \in 1..Len(parses), outcome \in ViewOutcomes : parseSettles(i, outcome)
    \/ showApiKeySettings
    \/ setJpdbApiKey
    \/ takeNewPhoto

\* the session in which every promise an OCR run awaits settles
OcrRunFairSpec ==
    /\ Init /\ [][OcrRunNext]_vars
    /\ WF_vars(recognizeSettles)
    /\ WF_ocrRun(ocrParseSettles)

\* A session around the camera: the permission is granted or refused, the
\* component is torn down at any moment, and photos are captured or uploaded,
\* read and their words clicked; the key is the one the session started with.
CameraNext ==
    \/ getUserMediaResolves
    \/ getUserMediaRejects
    \/ onUnmounted
    \/ captureImage
    \/ \E file \in UploadFiles : handleImageUpload(file)
    \/ \E i \in 1..Len(reads) : readerOnload(i)
    \/ performOCR
    \/ \E withWords \in BOOLEAN : recognizeResolves(withWords)
    \/ recognizeRejects
    \/ \E i \in 1..Len(parses), outcome \in ViewOutcomes : parseSettles(i, outcome)
    \/ \E word \in overlayWords : handleWordClick(word)
    \/ \E i \in 1..Len(lookups), outcome \in ViewOutcomes : lookupSettles(i, outcome)

CameraSpec == Init /\ [][CameraNext]_vars

\* A session at the overlays: a photo is captured, its img element is mounted
\* and its image decoded, the text is read and the photo retaken.
OverlayNext ==
    \/ getUserMediaResolves
    \/ captureImage
    \/ imageRefBound
    \/ imageLoads
    \/ performOCR
    \/ \E withWords \in BOOLEAN : recognizeResolves(withWords)
    \/ recognizeRejects
    \/ \E i \in 1..Len(parses), outcome \in ViewOutcomes : parseSettles(i, outcome)
    \/ takeNewPhoto

OverlaySpec == Init /\ [][OverlayNext]_vars

----------------------------------------------------------------------------
(* What the claims speak of, stated without the code's split and filter *)

\* the places where a maximal run of non-whitespace characters starts
SegmentStarts(text) ==
    {i \in 1..Len(text) : ~IsWs(text[i]) /\ (i = 1 \/ IsWs(text[i - 1]))}

\* the last place of the run that starts at i
SegmentEnd(text, i) ==
    CHOOSE j \in i..Len(text) :
        /\ \A k \in i..j : ~IsWs(text[k])
        /\ (j = Len(text) \/ IsWs(text[j + 1]))

\* the k-th start, in text order
NthStart(text, k) ==
    CHOOSE i \in SegmentStarts(text) :
        Cardinality({j \in SegmentStarts(text) : j < i}) = k - 1

\* the whitespace-separated non-empty segments of text, in order, each tagged new
SegmentsTaggedNew(text) ==
    [k \in 1..Cardinality(SegmentStarts(text)) |->
        [text |-> SubSeq(text, NthStart(text, k), SegmentEnd(text, NthStart(text, k))),
         card_state |-> "new"]]

----------------------------------------------------------------------------
(* Claims on the service *)

\* C1: parseText called with a credential present resolves, whenever the remote
\* call fails (the fetch rejects, HTTP 401, another non-2xx status, a body that is
\* not JSON), to exactly the fallback: the whitespace-separated non-empty
\* segments of the text in their order, each tagged card_state = "new".
C1_FallbackOnFailure ==
    (ret.op = "parseText" /\ ret.keyPresent /\ ret.outcome \in Failures)
        => ret.value = SegmentsTaggedNew(ret.arg)

\* C1 witness: a two-word text with a run of two blanks came back as its two
\* segments after the fetch was answered 401 with a credential set.
C1_Witness ==
    /\ ret.op = "parseText" /\ ret.keyPresent /\ ret.outcome = "Http401"
    /\ ret.arg = <<"a", " ", " ", "b">>
    /\ Len(ret.value) = 2

\* C2: with no credential set, parseText returns for every text its
\* whitespace-separated non-empty segments in order, each tagged new, and the
\* call issues no network request.
C2_NoKeyFallbackNoFetch ==
    (ret.op = "parseText" /\ ~ret.keyPresent)
        => (ret.value = SegmentsTaggedNew(ret.arg) /\ ~ret.fetched)

\* C2 witness: with no credential a two-word text came back as two tokens.
C2_Witness ==
    /\ ret.op = "parseText" /\ ~ret.keyPresent /\ ~Truthy(apiKey)
    /\ ret.arg = <<"a", " ", "b">>
    /\ ret.value = <<Token(<<"a">>, "new"), Token(<<"b">>, "new")>>

\* C3: lookupWord returns null when no credential is set, when the remote has
\* no entry for the word, and when the remote call fails.
C3_LookupNull ==
    (/\ ret.op = "lookupWord"
     /\ \/ ~ret.keyPresent
        \/ ret.outcome \in Failures
        \/ ret.outcome = "OkEmpty")
        => ret.value = NullInfo

\* the texts of a token list, joined in order
RECURSIVE JoinTexts(_)
JoinTexts(tokens) ==
    IF tokens = <<>> THEN <<>> ELSE Head(tokens).text \o JoinTexts(Tail(tokens))

\* a text with every whitespace character taken out
WithoutWhitespace(text) == SelectSeq(text, LAMBDA c : ~IsWs(c))

\* C21: for every non-empty text, the fallback segmentation yields tokens none
\* of which is empty or contains whitespace, and whose texts joined in order
\* are the text with all its whitespace removed.
C21_FallbackSegments ==
    (/\ ret.op = "parseText" /\ ret.arg # <<>>
     /\ (~ret.keyPresent \/ ret.outcome \in Failures))
        => (/\ \A i \in 1..Len(ret.value) :
                  /\ ret.value[i].text # <<>>
                  /\ \A j \in 1..Len(ret.value[i].text) : ~IsWs(ret.value[i].text[j])
            /\ JoinTexts(ret.value) = WithoutWhitespace(ret.arg))

\* C21 witness: a text that starts with a blank and holds two words fell back
\* to its two words after the fetch was rejected.
C21_Witness ==
    /\ ret.op = "parseText" /\ ret.keyPresent /\ ret.outcome = "NetworkReject"
    /\ ret.arg = <<" ", "a", " ", "b">>
    /\ JoinTexts(ret.value) = <<"a", "b">> /\ Len(ret.value) = 2

\* C22: after any sequence of setApiKey calls getApiKey() returns the key of the
\* most recent call and the store holds that value under jpdb_api_key: each
\* call leaves both equal to its argument, no other call of the service
\* changes either, and nothing is ever stored under another name.
C22_KeyIsLastSetAndStored ==
    /\ [][\A key \in CallerKeys :
             SvcSetApiKey(key)
                => (getApiKey' = key /\ getItem(localStorage', StorageKey) = key)]_vars
    /\ [][(~\E key \in CallerKeys : SvcSetApiKey(key))
             => UNCHANGED <<apiKey, localStorage>>]_vars
    /\ [](\A item \in localStorage : item[1] = StorageKey)

\* C22 witness: a key no session starts with is the key in use and the key
\* stored, and a call made under it has returned.
C22_Witness ==
    /\ getApiKey = <<"i">> /\ localStorage = {<<StorageKey, <<"i">>>>}
    /\ ret.op = "parseText" /\ ret.keyPresent

\* C23: ping never throws: it resolves to false when no API key is set and
\* when the remote call answers 401 or fails otherwise, and to true only when
\* the request was sent and answered with success.
C23_PingIsBoolean ==
    ret.op = "ping"
        => (/\ ret.value \in BOOLEAN
            /\ (~ret.keyPresent \/ ret.outcome \in Failures) => ret.value = FALSE
            /\ ret.value = TRUE
                  => (/\ ret.keyPresent /\ ret.fetched
                      /\ ret.outcome \in {"EmptyBody", "OkEmpty", "Ok"}))

\* C23 witness: a ping under a key was answered 401 and resolved to false.
C23_Witness ==
    /\ ret.op = "ping" /\ ret.keyPresent /\ ret.outcome = "Http401"
    /\ ret.value = FALSE

\* C20: getWordColorClass is total and pure: it maps known, learning, new,
\* suspended and locked to jpdb-known, jpdb-learning, jpdb-new, jpdb-suspended
\* and jpdb-locked, and undefined and every other value to jpdb-new, whatever
\* the state of the service.
C20_ColorClassTotal ==
    /\ \A cardState \in CardStates :
          getWordColorClass(cardState) \in
              {"jpdb-known", "jpdb-learning", "jpdb-new", "jpdb-suspended", "jpdb-locked"}
    /\ ret.op = "getWordColorClass"
          => ret.value =
                (LET tag == [known |-> "jpdb-known", learning |-> "jpdb-learning",
                             new |-> "jpdb-new", suspended |-> "jpdb-suspended",
                             locked |-> "jpdb-locked"]
                 IN  IF ret.arg \in DOMAIN tag THEN tag[ret.arg] ELSE "jpdb-new")

\* C20 witness: a card state that is none of the five came back as jpdb-new.
C20_Witness ==
    /\ ret.op = "getWordColorClass" /\ ret.arg = "redundant"
    /\ ret.value = "jpdb-new"

----------------------------------------------------------------------------
(* Claims on the view *)

\* C4: when word B is clicked while the lookup of word A is in flight, the
\* response for A never overwrites the selection of B: whenever the panel shows
\* a selected word and selectedWordInfo is non-null, the info is the result of
\* the lookup requested for that selected word.
C4_InfoIsOfSelectedWord ==
    (showDictionary /\ selectedWord # <<>> /\ selectedWordInfo # NullInfo)
        => selectedWordInfo.word = selectedWord

\* C5: an OCR run whose image has been retaken or replaced by the time it
\* completes writes neither ocrResult nor ocrWords and starts no vocabulary
\* parse.
C5_LateOcrDiscarded ==
    [][(/\ ocrRun.phase = "recognize"
        /\ ocrRun.image # capturedImage
        /\ ocrRun'.phase # "recognize")
       => (ocrResult' = ocrResult /\ ocrWords' = ocrWords /\ parses' = parses)]_vars

\* C6: Take New Photo clears ocrResult, ocrWords and jpdbTokens in one step.
C6_RetakeClearsAll ==
    [][takeNewPhoto
       => (ocrResult' = <<>> /\ ocrWords' = <<>> /\ jpdbTokens' = <<>>)]_vars

\* the token lists a parse of the text of an image can produce
TokensOf(img) ==
    {parseText(impl, Trim(OcrText(img)), TRUE, outcome) : outcome \in Outcomes}

\* C7: in every reachable state the non-empty ocrResult, ocrWords and
\* jpdbTokens derive from the OCR text of the image now in capturedImage.
C7_DerivedFromCurrentImage ==
    /\ ocrResult # <<>> =>
          (capturedImage # NoImage /\ ocrResult = Trim(OcrText(capturedImage)))
    /\ ocrWords # <<>> =>
          (capturedImage # NoImage /\ ocrWords = OcrWordList(capturedImage))
    /\ jpdbTokens # <<>> =>
          (capturedImage # NoImage /\ jpdbTokens \in TokensOf(capturedImage))

\* C8: closeDictionary, called in any panel state, leaves showDictionary false,
\* selectedWord empty and selectedWordInfo null.
C8_CloseResets ==
    [][closeDictionary
       => (~showDictionary' /\ selectedWord' = <<>> /\ selectedWordInfo' = NullInfo)]_vars

\* C8 witness: the panel was closed while a lookup was in flight.
C8_Witness ==
    /\ ~showDictionary /\ selectedWord = <<>> /\ selectedWordInfo = NullInfo
    /\ isLookingUp /\ Len(lookups) > 0

\* C9: a click on a word whose trimmed form is non-empty selects the trimmed
\* word, opens the panel and resets selectedWordInfo to null, before any lookup
\* result arrives.
C9_ClickSelects ==
    [][\A word \in overlayWords :
          (handleWordClick(word) /\ Trim(word) # <<>>)
              => (/\ selectedWord' = Trim(word)
                  /\ showDictionary'
                  /\ selectedWordInfo' = NullInfo)]_vars

\* C9 witness: the padded word of the second image was clicked and its lookup
\* has not come back.
C9_Witness ==
    /\ capturedImage = "img2" /\ <<"b", " ">> \in overlayWords
    /\ selectedWord = <<"b">> /\ showDictionary /\ selectedWordInfo = NullInfo
    /\ lookups = <<(<<"b">>)>>

C12_OcrOnlyAfterCapture ==
    /\ [](ocrRun.phase = "recognize" => ocrRun.image # NoImage)
    /\ [][(capturedImage = NoImage /\ capturedImage' # NoImage)
             => (captureImage \/ \E i \in 1..Len(reads) : readerOnload(i))]_vars
    /\ [][(performOCR /\ capturedImage = NoImage) => UNCHANGED vars]_vars

\* C12 witness: the recognition of a photo that was captured or uploaded is in
\* flight.
C12_Witness ==
    /\ ocrRun.phase = "recognize" /\ ocrRun.image = "img2"
    /\ capturedImage = "img2" /\ isProcessing

\* C13: a vocabulary parse is only ever started in a state where the OCR text
\* is non-empty and a credential is set, and it is that text it parses; this
\* holds for the parse started at the end of an OCR run and for the one
\* started by setting an API key.
C13_ParseNeedsTextAndKey ==
    [][Len(parses') > Len(parses)
       => (/\ Truthy(ocrResult') /\ Truthy(apiKey')
           /\ parses'[Len(parses')].text = ocrResult'
           /\ parses'[Len(parses')].awaitedBy \in {"ocr", "key"})]_vars

\* C13 witness: the parse an OCR run started and the parse the setting of a
\* key started are both in flight.
C13_Witness ==
    /\ Len(parses) = 2
    /\ parses[1].awaitedBy = "ocr" /\ parses[2].awaitedBy = "key"
    /\ Truthy(ocrResult) /\ Truthy(apiKey)

----------------------------------------------------------------------------
(* Claims on the camera *)

\* C14: after the component is torn down no acquired camera track is left
\* running, whatever the order of the camera grant and the teardown, a grant
\* that arrives after the teardown included.
C14_NoTrackAfterTeardown ==
    ~mounted => liveTracks = {}

\* the handlers the user needs after the camera is refused can be fired
SessionUsable ==
    /\ (mounted /\ capturedImage = NoImage /\ InFlight < MaxInFlight)
          => \A file \in UploadFiles : ENABLED handleImageUpload(file)
    /\ (mounted /\ capturedImage # NoImage /\ ~isProcessing /\ InFlight < MaxInFlight)
          => ENABLED performOCR
    /\ (mounted /\ InFlight < MaxInFlight)
          => \A word \in overlayWords : ENABLED handleWordClick(word)

\* C15: when camera access is denied or the capability is absent, startCamera
\* ends in its catch: it sets the camera errorMessage and leaves stream null
\* with no track acquired, and from then on upload, OCR and word click can
\* still be fired.
C15_DenialIsContained ==
    /\ [][getUserMediaRejects
             => (errorMessage' = CameraError /\ stream' = NoStream /\ liveTracks' = {})]_vars
    /\ [](userMedia = "denied"
             => (stream = NoStream /\ liveTracks = {} /\ SessionUsable))

\* C15 witness: the camera was refused, and an uploaded image has been read
\* and one of its words clicked.
C15_Witness ==
    /\ userMedia = "denied" /\ stream = NoStream
    /\ capturedImage = "img2" /\ ocrResult = <<"b">>
    /\ showDictionary /\ selectedWord = <<"b">>

\* C16: captureImage is a no-op when the video holds no frame (the camera not
\* granted, refused, or not streaming): capturedImage and every other field
\* are left as they were.
C16_CaptureWithoutFrameIsNoOp ==
    [][(captureImage /\ ~FrameAvailable) => UNCHANGED vars]_vars

----------------------------------------------------------------------------
(* Claims on failures and on the retake *)

\* C17: when the OCR engine fails, performOCR ends in its catch and finally:
\* it sets the generic retry errorMessage and returns isProcessing to false,
\* and while that message shows no run is in progress and a new OCR attempt
\* on the captured image can be started.
C17_OcrFailureIsContained ==
    /\ [][recognizeRejects
             => (errorMessage' = OcrError /\ ~isProcessing' /\ ocrRun' = NoRun)]_vars
    /\ [](errorMessage = OcrError
             => (/\ ~isProcessing
                 /\ (mounted /\ capturedImage # NoImage /\ InFlight < MaxInFlight)
                       => ENABLED (performOCR /\ ocrRun'.phase = "recognize")))

\* C17 witness: the recognition of a captured photo failed; the message shows
\* and the photo is still there to be read again.
C17_Witness ==
    /\ errorMessage = OcrError /\ ~isProcessing /\ ocrRun = NoRun
    /\ capturedImage = "img1" /\ ocrResult = <<>>

\* C18: a failed vocabulary call (parse or lookup) never changes the
\* user-visible errorMessage, and its only effect is the fallback token list,
\* for a parse, or a null selectedWordInfo, for a lookup.
C18_VocabularyFailureIsSilent ==
    [][/\ \A i \in 1..Len(parses), outcome \in Failures :
             parseSettles(i, outcome)
                => (/\ errorMessage' = errorMessage
                    /\ jpdbTokens' = SegmentsTaggedNew(parses[i].text))
       /\ \A i \in 1..Len(lookups), outcome \in Failures :
             lookupSettles(i, outcome)
                => (/\ errorMessage' = errorMessage
                    /\ selectedWordInfo' = NullInfo)]_vars

\* C19: after Take New Photo selectedWord is empty, showDictionary is false,
\* and isProcessing, isParsing and isLookingUp are false.
C19_RetakeResetsFlags ==
    [][takeNewPhoto
       => (/\ selectedWord' = <<>> /\ ~showDictionary'
           /\ ~isProcessing' /\ ~isParsing' /\ ~isLookingUp')]_vars

----------------------------------------------------------------------------
(* Overlay geometry *)

\* the number x is a * num / den
IsRatio(x, a, num, den) == x.kind = "finite" /\ x.n * den = a * num * x.d

\* C24: once the image is decoded, the rectangle drawn for a word is its
\* bounding box scaled per axis: left = x0 * clientWidth / naturalWidth,
\* top = y0 * clientHeight / naturalHeight, width = (x1 - x0) * clientWidth /
\* naturalWidth, height = (y1 - y0) * clientHeight / naturalHeight, in px and
\* absolutely positioned; an image shown at half its natural size has every
\* coordinate of every box halved.
C24_OverlayIsScaledBox ==
    (imageRef # NoElement /\ imageRef.naturalWidth > 0 /\ imageRef.naturalHeight > 0)
        => \A i \in 1..Len(overlayStyles) :
              LET style == overlayStyles[i]
                  bbox == ocrWords[i].bbox
                  cw == imageRef.clientWidth
                  ch == imageRef.clientHeight
                  nw == imageRef.naturalWidth
                  nh == imageRef.naturalHeight
              IN /\ style.position = "absolute"
                 /\ IsRatio(style.left.px, bbox.x0, cw, nw)
                 /\ IsRatio(style.top.px, bbox.y0, ch, nh)
                 /\ IsRatio(style.width.px, bbox.x1 - bbox.x0, cw, nw)
                 /\ IsRatio(style.height.px, bbox.y1 - bbox.y0, ch, nh)
                 /\ (2 * cw = nw /\ 2 * ch = nh)
                       => /\ IsRatio(style.left.px, bbox.x0, 1, 2)
                          /\ IsRatio(style.top.px, bbox.y0, 1, 2)
                          /\ IsRatio(style.width.px, bbox.x1 - bbox.x0, 1, 2)
                          /\ IsRatio(style.height.px, bbox.y1 - bbox.y0, 1, 2)

\* the boxes {0,0,100,50} and {110,0,180,50} drawn over the image at half size:
\* the second one at left 55, top 0, width 35, height 25
C24_Witness ==
    /\ imageRef = Element(NaturalSize("img1"), [width |-> 100, height |-> 50])
    /\ capturedImage = "img1"
    /\ ocrWords = OcrWordList("img1")
    /\ IsRatio(overlayStyles[2].left.px, 55, 1, 1)
    /\ IsRatio(overlayStyles[2].top.px, 0, 1, 1)
    /\ IsRatio(overlayStyles[2].width.px, 35, 1, 1)
    /\ IsRatio(overlayStyles[2].height.px, 25, 1, 1)

\* C25: no overlay is drawn at a position derived from a zero divisor: while
\* the image is not decoded (naturalWidth or naturalHeight 0) the style of an
\* overlay is empty, and a style that is not empty holds four finite lengths.
C25_NoZeroDivisor ==
    \A i \in 1..Len(overlayStyles) :
        overlayStyles[i] # EmptyStyle
            => \A length \in {overlayStyles[i].left, overlayStyles[i].top,
                              overlayStyles[i].width, overlayStyles[i].height} :
                    length.px.kind = "finite"

----------------------------------------------------------------------------
(* Claims on the words of a run and on lookups that overlap *)

\* C26: a recognition that completes replaces ocrWords by the words of that
\* run, and by no words when the run reports no word list; no word of an
\* earlier run is kept.
C26_WordsReplacedWholesale ==
    [][\A withWords \in BOOLEAN :
          recognizeResolves(withWords)
              => ocrWords' = IF withWords THEN OcrWordList(ocrRun.image) ELSE <<>>]_vars

\* the tokens of jpdbTokens whose trimmed text is that of the i-th OCR word
TokensFor(i) ==
    {k \in 1..Len(jpdbTokens) : Trim(jpdbTokens[k].text) = Trim(ocrWords[i].text)}

\* C27: the overlay of an OCR word carries the base class alone when no token
\* of jpdbTokens has its trimmed text, and else the base class and the colour
\* of the card state of the first such token; so the occurrences of one
\* surface are coloured alike, by the state of the first.
C27_FirstMatchColours ==
    /\ \A i \in 1..Len(overlayClasses) :
          IF TokensFor(i) = {}
          THEN overlayClasses[i] = <<"clickable-word">>
          ELSE \E k \in TokensFor(i) :
                  /\ \A j \in TokensFor(i) : k <= j
                  /\ overlayClasses[i]
                        = <<"clickable-word", getWordColorClass(jpdbTokens[k].card_state)>>
    /\ \A i, j \in 1..Len(overlayClasses) :
          Trim(ocrWords[i].text) = Trim(ocrWords[j].text)
              => overlayClasses[i] = overlayClasses[j]

\* 'a b a' read and parsed: the remote holds the first 'a' as known and the
\* second as suspended, and both overlays of 'a' are coloured as known
C27_Witness ==
    /\ capturedImage = "img1"
    /\ ocrWords = OcrWordList("img1")
    /\ \E k \in TokensFor(3) : k > 1 /\ jpdbTokens[k].card_state = "suspended"
    /\ jpdbTokens[1].card_state = "known"
    /\ overlayClasses[1] = <<"clickable-word", "jpdb-known">>
    /\ overlayClasses[3] = <<"clickable-word", "jpdb-known">>
    /\ overlayClasses[2] = <<"clickable-word", "jpdb-learning">>

\* C28: with a key set, while the lookup started by the click that selected
\* the current word has not settled, isLookingUp is true and the panel shows
\* Loading, whatever earlier lookups have settled meanwhile.
C28_LoadingUntilOwnLookupSettles ==
    (Truthy(apiKey) /\ latestLookup # 0 /\ selectedWord # <<>>)
        => (isLookingUp /\ PanelState = "Loading")

\* C29: a lookup that settles after the panel was closed leaves the panel
\* empty: selectedWordInfo stays null and selectedWord stays empty.
C29_LateLookupAfterCloseIsDropped ==
    [][\A i \in 1..Len(lookups), outcome \in ViewOutcomes :
          (lookupSettles(i, outcome) /\ ~showDictionary /\ selectedWord = <<>>)
              => (selectedWordInfo' = NullInfo /\ selectedWord' = <<>>)]_vars

\* C30: while the dictionary panel is shown a word is selected.
C30_ShownPanelHasWord ==
    showDictionary => selectedWord # <<>>

----------------------------------------------------------------------------
(* Claims on the flags of the OCR run and of the parses, and on the key form *)

\* an OCR run is in flight: it waits for the recognition or for its parse
OcrRunInFlight == ocrRun.phase \in {"recognize", "parse"}

C32_ParsingWhileAnyParseInFlight ==
    parses # <<>> => isParsing

\* C33: setJpdbApiKey with a field that is empty or all whitespace changes
\* nothing: the key of the service, the stored item, showApiKeyInput and
\* jpdbTokens stay and no parse is started; with any other field the trimmed
\* value becomes the key of the service and the stored item, and the key
\* input is hidden.
C33_BlankKeyIsNoOp ==
    [][setJpdbApiKey
          => IF Trim(jpdbApiKey) = <<>>
             THEN UNCHANGED <<apiKey, localStorage, showApiKeyInput, jpdbTokens,
                              parses, isParsing>>
             ELSE /\ getApiKey' = Trim(jpdbApiKey)
                  /\ getItem(localStorage', StorageKey) = Trim(jpdbApiKey)
                  /\ ~showApiKeyInput']_vars

\* ' k' was submitted: the key is 'k', stored, the input hidden and the text
\* that had been read is parsed again
C33_Witness ==
    /\ jpdbApiKey = <<" ", "k">>
    /\ getApiKey = <<"k">>
    /\ localStorage = {<<StorageKey, <<"k">>>>}
    /\ ~showApiKeyInput
    /\ \E i \in 1..Len(parses) : parses[i].awaitedBy = "key"

====
